---- MODULE Spec2Model ----
(***************************************************************************)
(* A model of the DHCP service of src/dhcp_server.py: the LeaseManager     *)
(* (get_lease, offer_ip, commit_lease) and the DHCPServer (start, stop,    *)
(* handle_packet, send_reply).                                             *)
(*                                                                         *)
(* Conventions.                                                            *)
(*  - A byte string is a sequence of 0..255; Python's 0-based data[i] is   *)
(*    At(data, i) and data[a:b] is Slice(data, a, b).                      *)
(*  - A dotted-quad address string ("10.0.0.100") is the tuple of its four *)
(*    octets; None (where an address is expected) is the empty tuple.      *)
(*  - A dict is a function whose DOMAIN is the set of keys present.        *)
(*  - time.time() is the integer `now`; one call of a LeaseManager method  *)
(*    reads one value of the clock.                                        *)
(***************************************************************************)
EXTENDS Integers, Sequences, FiniteSets, TLC

\* ------------------------------------------------------------------ bounds
\* The largest configured range [range_start, range_end], in addresses.
MaxRangeSize == 2
\* Number of distinct client hardware addresses.
NumMacs == 2
\* Number of times the clock is advanced.
MaxTicks == 2

\* ------------------------------------------------------- program constants
\* lease_time=3600, the default of LeaseManager.__init__.
LeaseTime == 3600
\* "time.time() + 60": the time a client has to accept an offer.
OfferTTL == 60
\* "if len(data) < 240": the fixed header.
MinPacketLen == 240
\* "data[:28]": the part of the datagram handed to struct.unpack.
HeaderSliceLen == 28
\* struct.calcsize('!BBBBIHHIIII16s'): 4*1 + 4 + 2*2 + 4*4 + 16.
HeaderFmtSize == 44
\* The number of values '!BBBBIHHIIII16s' packs: 4 + 1 + 2 + 4 + 1.
HeaderFmtItems == 12
\* The number of values send_reply passes to struct.pack after the format.
HeaderPackArgs == 13

\* ------------------------------------------------------------ byte strings
Zeros(n) == [i \in 1..n |-> 0]

\* data[i], 0-based; the caller checks i < len(data).
At(data, i) == data[i + 1]

\* data[a:b]: Python clips a slice to the buffer, it never raises.
Slice(data, a, b) ==
  LET hi == IF b < Len(data) THEN b ELSE Len(data)
  IN  IF a >= hi THEN <<>> ELSE [i \in 1..(hi - a) |-> data[a + i]]

\* struct.pack('!I', n): four bytes, most significant first.
PackU32(n) ==
  << (n \div 16777216) % 256, (n \div 65536) % 256, (n \div 256) % 256, n % 256 >>

\* struct.unpack('!I', b)[0].
UnpackU32(b) == b[1] * 16777216 + b[2] * 65536 + b[3] * 256 + b[4]

\* ------------------------------------------------------------- addresses
\* None, where an address string is expected.
None == <<>>

\* Python's truth value of an address string, a byte string or None.
Truthy(x) == x # <<>>

\* int(IPv4Address(s)).
IpInt(s) == UnpackU32(s)

\* str(IPv4Address(n)).
IpStr(n) == PackU32(n)

\* socket.inet_aton(s): the four octets of a dotted quad.
InetAton(s) == s

\* range_start of the configuration handed to DHCPServer (a 10.0.0.0/24 pool).
RangeStart == <<10, 0, 0, 100>>

\* The values of range_end the service is configured with: ranges of one
\* to MaxRangeSize addresses.
RangeEnds == { IpStr(IpInt(RangeStart) + k - 1) : k \in 1..MaxRangeSize }

\* An address below every configured range.
OutsideIp == <<10, 0, 0, 99>>

\* The addresses a client may name in a REQUEST: those of the largest range
\* and one outside it.
ReqIps == { IpStr(IpInt(RangeStart) + k - 1) : k \in 1..MaxRangeSize } \cup {OutsideIp}

\* ---------------------------------------------------- hardware addresses
HexDigits == <<"0", "1", "2", "3", "4", "5", "6", "7",
               "8", "9", "a", "b", "c", "d", "e", "f">>

\* '%02x' % b
Hex2(b) == HexDigits[(b \div 16) + 1] \o HexDigits[(b % 16) + 1]

\* ':'.join('%02x' % b for b in mac_bytes), for the six bytes of chaddr[:6].
MacStr(mb) ==
  Hex2(mb[1]) \o ":" \o Hex2(mb[2]) \o ":" \o Hex2(mb[3]) \o ":" \o
  Hex2(mb[4]) \o ":" \o Hex2(mb[5]) \o ":" \o Hex2(mb[6])

\* The clients' hardware addresses, as the six bytes of chaddr.
MacBytes == { <<2, 0, 0, 0, 171, i>> : i \in 1..NumMacs }

\* The keys of the lease tables.
Macs == { MacStr(mb) : mb \in MacBytes }

\* ------------------------------------------------------------------ state
VARIABLES
  now,      \* time.time()
  ticks,    \* how often the clock has been advanced
  leases,   \* LeaseManager.leases:  MAC -> [ip, expiry]
  offered,  \* LeaseManager.offered: MAC -> [ip, expiry]
  range_end,\* LeaseManager.range_end, as the address string it was given
  offeredTo,\* history, kept by SpecPoolHist only: the MACs offer_ip has
            \* returned an address to
  pc,       \* where the thread running DHCPServer.start is
  running,  \* DHCPServer.running
  sock,     \* DHCPServer.sock: "none", "open", "bound" or "closed"
  cur,      \* the datagram recvfrom returned
  handled,  \* how handle_packet ended on cur: "none", "return" or "raise"
  sent,     \* the replies handed to sock.sendto
  stopPc,   \* where the thread calling DHCPServer.stop is
  stopAt    \* history: where the thread running start was when stop was
            \* called ("none" while it has not been)

vars == << now, ticks, leases, offered, range_end, offeredTo, pc, running, sock, cur,
           handled, sent, stopPc, stopAt >>

poolVars == << leases, offered, range_end >>
serverVars == << pc, running, sock, cur, handled, sent, stopPc, stopAt >>

\* ------------------------------------------------------------------ dicts
EmptyDict == [k \in {} |-> None]

\* d[k] = v
DictSet(d, k, v) == (k :> v) @@ d

\* del d[k]
DictDel(d, k) == [x \in (DOMAIN d) \ {k} |-> d[x]]

\* {'ip': ip, 'expiry': expiry}
Entry(ip, expiry) == [ip |-> ip, expiry |-> expiry]

\* --------------------------------------------------------- LeaseManager
\* The result of a LeaseManager method: its return value and the tables.
Result(ret, ls, os) == [ret |-> ret, leases |-> ls, offered |-> os]

\* LeaseManager.get_lease(mac) at clock value t.
get_lease(mac, ls, os, t) ==
  IF mac \in DOMAIN ls
    THEN IF ls[mac].expiry > t
           THEN Result(ls[mac].ip, ls, os)
           ELSE Result(None, DictDel(ls, mac), os)
    ELSE Result(None, ls, os)

\* used_ips counting the bindings only: without the "used_ips.update(...)"
\* that adds the ip of every offer whose expiry is in the future.
used_ips_bound_only(ls, os, t) == { ls[m].ip : m \in DOMAIN ls }

\* used_ips of offer_ip: every ip of leases, and the ip of every offer
\* whose expiry is in the future.
used_ips(ls, os, t) ==
  { ls[m].ip : m \in DOMAIN ls } \cup
  { os[m].ip : m \in { k \in DOMAIN os : os[k].expiry > t } }

\* The first address of the range, in ascending order, that is not in used;
\* None when there is none.
first_free(used, rend) ==
  LET free == { n \in IpInt(RangeStart)..IpInt(rend) : IpStr(n) \notin used }
  IN  IF free = {} THEN None
      ELSE IpStr(CHOOSE n \in free : \A k \in free : n <= k)

\* offer_ip scanning the range for every caller: without its
\* "existing = self.get_lease(mac)" and "if existing: return existing".
offer_ip_rescan(mac, ls, os, t, rend) ==
  LET ip == first_free(used_ips(ls, os, t), rend)
  IN  IF Truthy(ip)
        THEN Result(ip, ls, DictSet(os, mac, Entry(ip, t + OfferTTL)))
        ELSE Result(None, ls, os)

\* offer_ip sweeping the table first: every binding whose expiry has passed
\* is deleted, whichever MAC it belongs to.
offer_ip_sweeping(mac, ls, os, t, rend) ==
  LET kept == [m \in { k \in DOMAIN ls : ls[k].expiry > t } |-> ls[m]]
      g == get_lease(mac, kept, os, t)
  IN  IF Truthy(g.ret)
        THEN g
        ELSE LET ip == first_free(used_ips(kept, os, t), rend)
             IN  IF Truthy(ip)
                   THEN Result(ip, kept, DictSet(os, mac, Entry(ip, t + OfferTTL)))
                   ELSE Result(None, kept, os)

\* LeaseManager.offer_ip(mac) at clock value t.
offer_ip(mac, ls, os, t, rend) ==
  LET g == get_lease(mac, ls, os, t)
  IN  IF Truthy(g.ret)
        THEN g
        ELSE LET ip == first_free(used_ips(g.leases, g.offered, t), rend)
             IN  IF Truthy(ip)
                   THEN Result(ip, g.leases,
                               DictSet(g.offered, mac, Entry(ip, t + OfferTTL)))
                   ELSE Result(None, g.leases, g.offered)

\* commit_lease without its "del self.offered[mac]".
commit_lease_keeps_offer(mac, ip, ls, os, t) ==
  Result(None, DictSet(ls, mac, Entry(ip, t + LeaseTime)), os)

\* LeaseManager.commit_lease(mac, ip) at clock value t.
commit_lease(mac, ip, ls, os, t) ==
  Result(None,
         DictSet(ls, mac, Entry(ip, t + LeaseTime)),
         IF mac \in DOMAIN os THEN DictDel(os, mac) ELSE os)

\* ---------------------------------------------------------------- clock
\* The steps the clock is advanced by: the life of an offer and the life of
\* a lease, so that `now` meets an expiry exactly and passes it.
Deltas == {OfferTTL, LeaseTime}

Tick ==
  /\ ticks < MaxTicks
  /\ \E d \in Deltas : now' = now + d
  /\ ticks' = ticks + 1
  /\ UNCHANGED << poolVars, offeredTo, serverVars >>

\* ------------------------------------------------ LeaseManager, called
Call(r) ==
  /\ leases' = r.leases
  /\ offered' = r.offered
  /\ UNCHANGED << now, ticks, range_end, serverVars >>

\* The history of offer_ip(mac) returning ret.
Offered(mac, ret) == IF Truthy(ret) THEN offeredTo \cup {mac} ELSE offeredTo

GetLease ==
  \E mac \in Macs :
    /\ Call(get_lease(mac, leases, offered, now))
    /\ UNCHANGED offeredTo

OfferIp ==
  \E mac \in Macs :
    /\ Call(offer_ip(mac, leases, offered, now, range_end))
    /\ UNCHANGED offeredTo

\* offer_ip called, and its result recorded in the history.
OfferIpRecorded ==
  \E mac \in Macs :
    LET r == offer_ip(mac, leases, offered, now, range_end) IN
      /\ Call(r)
      /\ offeredTo' = Offered(mac, r.ret)

CommitLease ==
  \E mac \in Macs, ip \in ReqIps :
    /\ Call(commit_lease(mac, ip, leases, offered, now))
    /\ UNCHANGED offeredTo

\* --------------------------------------------------- server configuration
\* interface_ip: the bridge address, used as router and server identifier.
ServerIp == <<10, 0, 0, 1>>

\* str(self.lease_manager.subnet.netmask) for the subnet 10.0.0.0/24.
Netmask == <<255, 255, 255, 0>>

\* dns="8.8.8.8"
Dns == <<8, 8, 8, 8>>

\* b'\x63\x82\x53\x63'
MagicCookie == <<99, 130, 83, 99>>

\* ------------------------------------------------------------- the struct
\* struct.unpack('!BBBBIHHIIII16s', buf): struct.error unless buf has exactly
\* the size of the format; else the twelve fields (those the handler reads).
struct_unpack_header(buf) ==
  IF Len(buf) # HeaderFmtSize
    THEN [ok |-> FALSE, op |-> 0, xid |-> 0, yiaddr |-> 0, chaddr |-> <<>>]
    ELSE [ok |-> TRUE, op |-> buf[1], xid |-> UnpackU32(Slice(buf, 4, 8)),
          yiaddr |-> UnpackU32(Slice(buf, 16, 20)),
          chaddr |-> Slice(buf, 28, 44)]

\* struct.pack('!BBBBIHHIIII16s', 2, 1, 6, 0, xid, 0, 0, 0, 0, 0, 0, 0, chaddr):
\* struct.error unless the number of values is that of the format.
struct_pack_header(xid, chaddr) ==
  IF HeaderPackArgs # HeaderFmtItems
    THEN [ok |-> FALSE, bytes |-> <<>>]
    ELSE [ok |-> TRUE,
          bytes |-> <<2, 1, 6, 0>> \o PackU32(xid) \o Zeros(20) \o chaddr]

\* struct.pack('!BBBBIHHIIII', 2, 1, 6, 0, xid, 0, 0, 0, yiaddr_int, 0, 0)
header_start(xid, yiaddr_int) ==
  <<2, 1, 6, 0>> \o PackU32(xid) \o Zeros(8) \o PackU32(yiaddr_int) \o Zeros(8)

\* socket.inet_ntoa(b): OSError unless b has four bytes.
inet_ntoa(b) == IF Len(b) = 4 THEN [ok |-> TRUE, ip |-> b]
                              ELSE [ok |-> FALSE, ip |-> None]

\* ------------------------------------------------------------- the options
\* The "Parse options" loop of handle_packet from index idx on: the options
\* dict, or IndexError where data[idx+1] is past the end of the buffer.
RECURSIVE parse_options(_, _, _)
parse_options(data, idx, options) ==
  IF ~(idx < Len(data)) THEN [ok |-> TRUE, options |-> options]
  ELSE LET opt_code == At(data, idx) IN
    IF opt_code = 255 THEN [ok |-> TRUE, options |-> options]
    ELSE IF opt_code = 0 THEN parse_options(data, idx + 1, options)
    ELSE IF ~(idx + 1 < Len(data)) THEN [ok |-> FALSE, options |-> options]
    ELSE LET opt_len == At(data, idx + 1)
             opt_val == Slice(data, idx + 2, idx + 2 + opt_len)
         IN  parse_options(data, idx + 2 + opt_len,
                           DictSet(options, opt_code, opt_val))

\* options.get(code)
options_get(options, code) ==
  IF code \in DOMAIN options THEN options[code] ELSE None

\* ---------------------------------------------------------------- replies
\* What a call inside handle_packet leaves: how it ended and the state.
Outcome(how, ls, os, snt) ==
  [how |-> how, leases |-> ls, offered |-> os, sent |-> snt]

\* DHCPServer.send_reply(xid, mac_bytes, yiaddr_str, msg_type): the packet is
\* appended to sent when sendto takes it; a failing sendto is caught and
\* logged, a failing struct.pack is not caught here.
send_reply(xid, mac_bytes, yiaddr_str, msg_type, snt, sk) ==
  LET head == struct_pack_header(xid, mac_bytes \o Zeros(10)) IN
  IF ~head.ok THEN [ok |-> FALSE, sent |-> snt]
  ELSE
    LET packet == head.bytes \o Zeros(192) \o MagicCookie
                  \o <<53, 1, msg_type>>
                  \o <<1, 4>> \o InetAton(Netmask)
                  \o <<3, 4>> \o InetAton(ServerIp)
                  \o <<6, 4>> \o InetAton(Dns)
                  \o <<54, 4>> \o InetAton(ServerIp)
                  \o <<51, 4>> \o PackU32(LeaseTime)
                  \o <<255>>
        yiaddr_int == UnpackU32(InetAton(yiaddr_str))
        patched == header_start(xid, yiaddr_int)
                   \o Slice(packet, 28, Len(packet))
    IN  [ok |-> TRUE,
         sent |-> IF sk = "bound" THEN Append(snt, patched) ELSE snt]

\* ----------------------------------------------------------- the handler
\* "if msg_type == 1" ... "elif msg_type == 3" of handle_packet.
dispatch(msg_type, xid, mac_bytes, options, ls, os, snt, t, rend, sk) ==
  LET mac_str == MacStr(mac_bytes) IN
  IF msg_type = 1 THEN
    LET o == offer_ip(mac_str, ls, os, t, rend) IN
    IF Truthy(o.ret)
      THEN LET s == send_reply(xid, mac_bytes, o.ret, 2, snt, sk)
           IN  Outcome(IF s.ok THEN "return" ELSE "raise",
                       o.leases, o.offered, s.sent)
      ELSE Outcome("return", o.leases, o.offered, snt)
  ELSE IF msg_type = 3 THEN
    LET requested_ip_opt == options_get(options, 50) IN
    IF Truthy(requested_ip_opt)
      THEN LET a == inet_ntoa(requested_ip_opt) IN
           IF ~a.ok THEN Outcome("raise", ls, os, snt)
           ELSE LET c == commit_lease(mac_str, a.ip, ls, os, t)
                    s == send_reply(xid, mac_bytes, a.ip, 5, snt, sk)
                IN  Outcome(IF s.ok THEN "return" ELSE "raise",
                            c.leases, c.offered, s.sent)
      ELSE Outcome("return", ls, os, snt)
  ELSE Outcome("return", ls, os, snt)

\* handle_packet after the header is unpacked: the magic cookie, the
\* options, the message type and the dispatch on it.
after_header(data, hdr, ls, os, snt, t, rend, sk) ==
  IF Slice(data, 236, 240) # MagicCookie THEN Outcome("return", ls, os, snt)
  ELSE LET p == parse_options(data, 240, EmptyDict) IN
    IF ~p.ok THEN Outcome("raise", ls, os, snt)
    ELSE LET msg_type == options_get(p.options, 53) IN
      IF ~Truthy(msg_type) THEN Outcome("return", ls, os, snt)
      ELSE dispatch(msg_type[1], hdr.xid, Slice(hdr.chaddr, 0, 6), p.options,
                    ls, os, snt, t, rend, sk)

\* handle_packet unpacking the whole header (data[:44]) and taking every
\* message type but DISCOVER for a REQUEST ("else" for "elif msg_type == 3").
handle_packet_else(data, ls, os, snt, t, rend, sk) ==
  IF Len(data) < MinPacketLen THEN Outcome("return", ls, os, snt)
  ELSE LET hdr == struct_unpack_header(Slice(data, 0, HeaderFmtSize)) IN
    IF ~hdr.ok THEN Outcome("raise", ls, os, snt)
    ELSE IF Slice(data, 236, 240) # MagicCookie THEN Outcome("return", ls, os, snt)
    ELSE LET p == parse_options(data, 240, EmptyDict) IN
      IF ~p.ok THEN Outcome("raise", ls, os, snt)
      ELSE LET msg_type == options_get(p.options, 53) IN
        IF ~Truthy(msg_type) THEN Outcome("return", ls, os, snt)
        ELSE dispatch(IF msg_type[1] = 1 THEN 1 ELSE 3, hdr.xid,
                      Slice(hdr.chaddr, 0, 6), p.options, ls, os, snt, t, rend, sk)

\* DHCPServer.handle_packet(data, addr).
handle_packet(data, ls, os, snt, t, rend, sk) ==
  IF Len(data) < MinPacketLen THEN Outcome("return", ls, os, snt)
  ELSE LET hdr == struct_unpack_header(Slice(data, 0, HeaderSliceLen)) IN
    IF ~hdr.ok THEN Outcome("raise", ls, os, snt)
    ELSE after_header(data, hdr, ls, os, snt, t, rend, sk)

\* ------------------------------------------------------------- datagrams
\* A BOOTREQUEST on the wire: the 236 bytes of the fixed fields, four bytes
\* where the magic cookie goes, and the option bytes.
Datagram(xid, mac_bytes, cookie, opts) ==
  <<1, 1, 6, 0>> \o PackU32(xid) \o Zeros(20) \o mac_bytes \o Zeros(10)
  \o Zeros(192) \o cookie \o opts

\* The transaction ids the clients use.
Xids == {305419896}

\* The option areas the clients send.
OptionLists ==
  { <<53, 1, 1, 255>>,                 \* DISCOVER
    <<0, 0, 53, 1, 1, 255>>,           \* DISCOVER after two pad options
    <<53, 1, 1>>,                      \* DISCOVER, no end marker
    <<53, 1, 1, 12>>,                  \* DISCOVER, then a dangling option code
    <<53, 1, 1, 12, 5, 104>>,          \* DISCOVER, then a value cut short
    <<53, 1, 3, 255>>,                 \* REQUEST without option 50
    <<53, 1, 3, 50, 0, 255>>,          \* REQUEST with an empty option 50
    <<53, 1, 7, 255>>,                 \* RELEASE
    <<53, 1, 8, 50, 4>> \o RangeStart \o <<255>>,   \* INFORM naming an address
    <<53, 1, 4, 50, 4>> \o RangeStart \o <<255>>,   \* DECLINE naming an address
    <<255>>,                           \* no option at all
    <<12, 1, 104, 255>>,               \* a host name, no option 53
    <<53, 0, 255>>,                    \* an empty option 53
    <<53>> }                           \* a dangling option 53
  \cup { <<53, 1, 3, 50, 4>> \o ip \o <<255>> : ip \in ReqIps }  \* REQUEST

\* The datagrams recvfrom may return.
Datagrams ==
  { Datagram(x, mb, MagicCookie, o) : x \in Xids, mb \in MacBytes, o \in OptionLists }
  \cup { Datagram(x, mb, <<99, 130, 83, 0>>, <<53, 1, 1, 255>>) :
           x \in Xids, mb \in MacBytes }
  \cup { Zeros(100), Zeros(239),
         Slice(Datagram(305419896, <<2, 0, 0, 0, 171, 1>>, MagicCookie, <<>>), 0, 239) }

\* ----------------------------------------------------- DHCPServer.start
\* socket.socket(...) and the two setsockopt calls.
StartSocket ==
  /\ pc = "idle"
  /\ sock' = "open"
  /\ pc' = "bind"
  /\ UNCHANGED << now, ticks, poolVars, offeredTo, running, cur, handled, sent, stopPc, stopAt >>

\* self.sock.bind(('0.0.0.0', 67)) succeeds.
BindOk ==
  /\ pc = "bind"
  /\ sock = "open"
  /\ sock' = "bound"
  /\ pc' = "set_running"
  /\ UNCHANGED << now, ticks, poolVars, offeredTo, running, cur, handled, sent, stopPc, stopAt >>

\* bind raises PermissionError: start logs the error and returns ("denied":
\* returned with the bind failure logged).
BindPermissionError ==
  /\ pc = "bind"
  /\ sock = "open"
  /\ pc' = "denied"
  /\ UNCHANGED << now, ticks, poolVars, offeredTo, running, sock, cur, handled, sent, stopPc, stopAt >>

\* bind raises another OSError (the port is in use, the socket is closed):
\* nothing in start catches it.
BindOtherError ==
  /\ pc = "bind"
  /\ pc' = "raised"
  /\ UNCHANGED << now, ticks, poolVars, offeredTo, running, sock, cur, handled, sent, stopPc, stopAt >>

\* self.running = True
SetRunning ==
  /\ pc = "set_running"
  /\ running' = TRUE
  /\ pc' = "loop"
  /\ UNCHANGED << now, ticks, poolVars, offeredTo, sock, cur, handled, sent, stopPc, stopAt >>

\* while self.running:
LoopTest ==
  /\ pc = "loop"
  /\ pc' = IF running THEN "recv" ELSE "returned"
  /\ UNCHANGED << now, ticks, poolVars, offeredTo, running, sock, cur, handled, sent, stopPc, stopAt >>

\* self.sock.recvfrom(1024) is called on the bound socket and blocks.
RecvEnter ==
  /\ pc = "recv"
  /\ sock = "bound"
  /\ pc' = "blocked"
  /\ UNCHANGED << now, ticks, poolVars, offeredTo, running, sock, cur, handled, sent, stopPc, stopAt >>

\* data, addr = self.sock.recvfrom(1024) returns a datagram. A call that is
\* already blocked when stop closes the socket is not woken by the close
\* and still returns the next datagram.
RecvFrom ==
  /\ pc = "blocked"
  /\ \E d \in Datagrams : cur' = d
  /\ handled' = "none"
  /\ pc' = "handle"
  /\ UNCHANGED << now, ticks, poolVars, offeredTo, running, sock, sent, stopPc, stopAt >>

\* The loop without its "except Exception": an error ends start.
loop_after_uncaught(how) == IF how = "raise" THEN "raised" ELSE "loop"

\* Where the loop goes once the try block is left: by handle_packet
\* returning, or through "except Exception", which logs while running.
loop_after(how) == "loop"

\* recvfrom raises: at once when it is called on a closed socket, or out
\* of a blocked call (a transient error).
RecvError ==
  /\ \/ pc = "recv" /\ sock # "bound"
     \/ pc = "blocked"
  /\ pc' = loop_after("raise")
  /\ UNCHANGED << now, ticks, poolVars, offeredTo, running, sock, cur, handled, sent, stopPc, stopAt >>

\* self.handle_packet(data, addr)
HandlePacket ==
  /\ pc = "handle"
  /\ LET r == handle_packet(cur, leases, offered, sent, now, range_end, sock) IN
       /\ leases' = r.leases
       /\ offered' = r.offered
       /\ sent' = r.sent
       /\ handled' = r.how
       /\ pc' = loop_after(r.how)
  /\ UNCHANGED << now, ticks, range_end, offeredTo, running, sock, cur, stopPc, stopAt >>

\* ------------------------------------------------------ DHCPServer.stop
\* self.running = False
StopFlag ==
  /\ stopPc = "idle"
  /\ running' = FALSE
  /\ stopPc' = "close"
  /\ stopAt' = pc
  /\ UNCHANGED << now, ticks, poolVars, offeredTo, pc, sock, cur, handled, sent >>

\* if self.sock: self.sock.close()
StopClose ==
  /\ stopPc = "close"
  /\ sock' = IF sock = "none" THEN sock ELSE "closed"
  /\ stopPc' = "done"
  /\ UNCHANGED << now, ticks, poolVars, offeredTo, pc, running, cur, handled, sent, stopAt >>

\* ------------------------------------------------------------------ Init
\* The state after DHCPServer.__init__ (and LeaseManager.__init__).
Init ==
  /\ now = 0
  /\ ticks = 0
  /\ leases = EmptyDict
  /\ offered = EmptyDict
  /\ range_end \in RangeEnds
  /\ offeredTo = {}
  /\ pc = "idle"
  /\ running = FALSE
  /\ sock = "none"
  /\ cur = <<>>
  /\ handled = "none"
  /\ sent = <<>>
  /\ stopPc = "idle"
  /\ stopAt = "none"

\* The LeaseManager driven through its three methods, as handle_packet
\* drives it for a decoded DISCOVER (offer_ip) and REQUEST (commit_lease).
NextPool == Tick \/ GetLease \/ OfferIp \/ CommitLease

SpecPool == Init /\ [][NextPool]_vars

\* The same, with the history of the offers made.
NextPoolHist == Tick \/ GetLease \/ OfferIpRecorded \/ CommitLease

SpecPoolHist == Init /\ [][NextPoolHist]_vars

\* handle_packet from "if msg_type == 1" on, entered with a DISCOVER or a
\* REQUEST already decoded: its transaction id, its sender and the address
\* its option 50 names.
Dispatch ==
  \E msg_type \in {1, 3}, xid \in Xids, mb \in MacBytes, req \in ReqIps :
    LET options == IF msg_type = 1
                     THEN DictSet(EmptyDict, 53, <<1>>)
                     ELSE DictSet(DictSet(EmptyDict, 53, <<3>>), 50, req)
        r == dispatch(msg_type, xid, mb, options, leases, offered, sent, now,
                      range_end, sock)
    IN  /\ leases' = r.leases
        /\ offered' = r.offered
        /\ sent' = r.sent
        /\ handled' = r.how
        /\ UNCHANGED << now, ticks, range_end, offeredTo, pc, running, sock, cur,
                        stopPc, stopAt >>

\* The replies: the socket is created and bound, and the handler is driven
\* with decoded messages.
NextDecoded == Tick \/ StartSocket \/ BindOk \/ Dispatch

SpecDecoded == Init /\ [][NextDecoded]_vars

\* The service: the thread running start, a thread calling stop, the
\* clients' datagrams and the clock.
Next ==
  \/ Tick
  \/ StartSocket \/ BindOk \/ BindPermissionError \/ BindOtherError
  \/ SetRunning \/ LoopTest \/ RecvEnter \/ RecvFrom \/ RecvError \/ HandlePacket
  \/ StopFlag \/ StopClose

Spec == Init /\ [][Next]_vars

\* ======================================================================
\* The lease pool's properties (SpecPool, SpecPoolHist).
\* ======================================================================
\* An entry the code treats as not expired at the current clock value.
Live(e) == e.expiry > now

\* The addresses mac holds by a non-expired offer or a non-expired binding.
Held(mac) ==
  (IF mac \in DOMAIN offered /\ Live(offered[mac]) THEN {offered[mac].ip} ELSE {})
  \cup
  (IF mac \in DOMAIN leases /\ Live(leases[mac]) THEN {leases[mac].ip} ELSE {})

\* The addresses of the configured range.
Range == { IpStr(n) : n \in IpInt(RangeStart)..IpInt(range_end) }

\* C1. Uniqueness: no two distinct MACs hold non-expired entries (an offer
\* or a binding) for the same address.
C1_Uniqueness ==
  \A m1 \in Macs, m2 \in Macs : m1 # m2 => Held(m1) \cap Held(m2) = {}

\* C2. Idempotent offer: while mac's own offer of address A has not expired
\* and mac has not committed, offer_ip(mac) returns A again.
C2_IdempotentOffer ==
  \A mac \in Macs :
    (mac \in DOMAIN offered /\ Live(offered[mac]) /\ mac \notin DOMAIN leases)
      => offer_ip(mac, leases, offered, now, range_end).ret = offered[mac].ip

\* The addresses of the range no MAC holds by a non-expired entry.
NotHeld == { a \in Range : \A m \in Macs : a \notin Held(m) }

\* C3. Expiry and reuse: a binding whose expiry is in the past is absent for
\* get_lease, and its address, when no non-expired entry holds it, does not
\* count as unavailable: offer_ip for any MAC without a binding of its own
\* returns an address that no non-expired entry holds.
C3_ExpiryReuse ==
  \A holder \in DOMAIN leases :
    leases[holder].expiry < now =>
      /\ get_lease(holder, leases, offered, now).ret = None
      /\ \A mac \in Macs :
           (leases[holder].ip \in NotHeld /\ Held(mac) = {})
             => offer_ip(mac, leases, offered, now, range_end).ret \in NotHeld

\* C4. Exhaustion: once as many distinct MACs as the range has addresses
\* have each been offered an address and each still holds a non-expired
\* offer or binding, offer_ip for a further MAC returns None.
C4_Exhaustion ==
  \A mac \in Macs :
    LET holders == { m \in offeredTo \ {mac} : Held(m) # {} } IN
    (Cardinality(holders) = Cardinality(Range) /\ Held(mac) = {})
      => offer_ip(mac, leases, offered, now, range_end).ret = None

\* The instants at which C5 looks a binding up: at once, an offer's life
\* later, and in the last second of the lease.
C5_Instants == {now, now + OfferTTL, now + LeaseTime - 1}

\* C5. Commit clears offer: after commit_lease(mac, ip), for any mac and ip,
\* get_lease(mac) before lease_time has elapsed returns ip, offered holds no
\* entry for mac, and the entries of every other MAC are unchanged.
C5_CommitClearsOffer ==
  \A mac \in Macs, ip \in ReqIps :
    LET r == commit_lease(mac, ip, leases, offered, now) IN
      /\ \A t \in C5_Instants :
           get_lease(mac, r.leases, r.offered, t).ret = ip
      /\ mac \notin DOMAIN r.offered
      /\ (DOMAIN r.leases) \ {mac} = (DOMAIN leases) \ {mac}
      /\ (DOMAIN r.offered) \ {mac} = (DOMAIN offered) \ {mac}
      /\ \A o \in (DOMAIN leases) \ {mac} : r.leases[o] = leases[o]
      /\ \A o \in (DOMAIN offered) \ {mac} : r.offered[o] = offered[o]

\* A state commit_lease has just produced: a MAC bound, at this clock value,
\* to an address outside the range that was never offered, with no offer of
\* its own left, beside another MAC's offer that is still there.
C5_Witness ==
  \E mac \in Macs, o \in Macs :
    /\ mac # o
    /\ mac \in DOMAIN leases
    /\ leases[mac] = Entry(OutsideIp, now + LeaseTime)
    /\ mac \notin DOMAIN offered
    /\ get_lease(mac, leases, offered, now).ret = OutsideIp
    /\ o \in DOMAIN offered

\* ======================================================================
\* The handler's properties (Spec).
\* ======================================================================
\* The option area read the way the wire format is specified: as
\* parse_options reads it, but stopping without an error where the buffer
\* ends after an option code.
RECURSIVE WireOptions(_, _, _)
WireOptions(data, idx, options) ==
  IF ~(idx < Len(data)) THEN options
  ELSE IF At(data, idx) = 255 THEN options
  ELSE IF At(data, idx) = 0 THEN WireOptions(data, idx + 1, options)
  ELSE IF ~(idx + 1 < Len(data)) THEN options
  ELSE WireOptions(data, idx + 2 + At(data, idx + 1),
                   DictSet(options, At(data, idx),
                           Slice(data, idx + 2, idx + 2 + At(data, idx + 1))))

\* A datagram of at least 240 bytes with the magic cookie at offset 236.
WellFramed(data) ==
  Len(data) >= MinPacketLen /\ Slice(data, 236, 240) = MagicCookie

\* The DHCP message type of a datagram or reply: the first byte of its
\* option 53; 0 when there is no non-empty option 53.
WireType(data) ==
  LET v == options_get(WireOptions(data, 240, EmptyDict), 53)
  IN  IF Truthy(v) THEN v[1] ELSE 0

\* The value of option 50 (requested IP address) of a datagram; None when
\* it is absent or empty.
WireRequested(data) == options_get(WireOptions(data, 240, EmptyDict), 50)

\* xid, yiaddr and the six bytes of chaddr, by their offsets in the header.
WireXid(data) == UnpackU32(Slice(data, 4, 8))
WireYiaddr(data) == Slice(data, 16, 20)
WireMac(data) == Slice(data, 28, 34)

\* The step of the receive loop that runs handle_packet on cur.
Handling == pc = "handle" /\ pc' # "handle"

\* The replies this step has sent.
NewReplies == Slice(sent', Len(sent), Len(sent'))

\* The datagrams C6 is about: too short, a wrong magic cookie, or no
\* non-empty option 53.
Dropped(data) ==
  \/ Len(data) < MinPacketLen
  \/ Slice(data, 236, 240) # MagicCookie
  \/ WireType(data) = 0

\* C6. Dropped packets: handling a datagram that is shorter than 240 bytes,
\* has a wrong magic cookie or has no non-empty option 53 sends no reply,
\* leaves leases and offered unchanged, and leaves the receive loop running
\* as it was (back at its loop test, running and the socket untouched).
C6_DroppedPackets ==
  [][(Handling /\ Dropped(cur)) =>
       /\ sent' = sent
       /\ leases' = leases
       /\ offered' = offered
       /\ pc' = "loop"
       /\ running' = running
       /\ sock' = sock]_vars

\* The loop is receiving again after handle_packet has dropped a framed
\* datagram without option 53 (by an error that start caught and logged).
C6_Witness ==
  /\ pc = "recv"
  /\ running
  /\ handled = "raise"
  /\ WellFramed(cur)
  /\ WireType(cur) = 0
  /\ sent = <<>>

\* The datagrams C8 is about: a framed REQUEST without option 50, and a
\* framed message of a type other than DISCOVER and REQUEST.
Unanswered(data) ==
  /\ WellFramed(data)
  /\ \/ WireType(data) = 3 /\ ~Truthy(WireRequested(data))
     \/ WireType(data) \notin {0, 1, 3}

\* C8. No ACK without an address, no action for unsupported types: handling
\* a REQUEST without option 50 or a message that is neither DISCOVER nor
\* REQUEST sends no reply and leaves leases and offered unchanged; and a
\* step that sends an ACK handles a REQUEST that carries option 50.
C8_NoAckWithoutAddress ==
  [][Handling =>
       /\ Unanswered(cur) =>
            (sent' = sent /\ leases' = leases /\ offered' = offered)
       /\ \A i \in 1..Len(NewReplies) :
            WireType(NewReplies[i]) = 5 =>
              (WellFramed(cur) /\ WireType(cur) = 3 /\ Truthy(WireRequested(cur)))]_vars

\* handle_packet has run on a RELEASE-like message that names an address
\* in option 50 (here an INFORM), and nothing was sent or recorded.
C8_Witness ==
  /\ pc = "loop"
  /\ handled # "none"
  /\ Unanswered(cur)
  /\ WireType(cur) = 8
  /\ Truthy(WireRequested(cur))
  /\ sent = <<>>
  /\ leases = EmptyDict

\* A framed datagram whose options parse_options reads to the end, of
\* message type t.
Decoded(data, t) ==
  /\ WellFramed(data)
  /\ parse_options(data, 240, EmptyDict).ok
  /\ WireType(data) = t

\* C7. REQUEST with option 50: handling a decoded REQUEST that carries a
\* requested address binds the sender's MAC to exactly that address with
\* expiry now + lease_time, leaves no offer for that MAC, and sends exactly
\* one reply, an ACK whose yiaddr is the requested address.
C7_RequestBinds ==
  [][(Handling /\ Decoded(cur, 3) /\ Len(WireRequested(cur)) = 4) =>
       LET mac == MacStr(WireMac(cur))
           ip == WireRequested(cur)
       IN  /\ mac \in DOMAIN leases'
           /\ leases'[mac] = Entry(ip, now + LeaseTime)
           /\ mac \notin DOMAIN offered'
           /\ Len(NewReplies) = 1
           /\ WireType(NewReplies[1]) = 5
           /\ WireYiaddr(NewReplies[1]) = ip]_vars

\* C9. DISCOVER handling: handling a decoded DISCOVER sends at most one
\* reply; when offer_ip returns an address the reply is an OFFER carrying
\* that address, the DISCOVER's transaction id and the client's MAC; when
\* it returns None nothing is sent and offered is unchanged.
C9_DiscoverOffers ==
  [][(Handling /\ Decoded(cur, 1)) =>
       LET o == offer_ip(MacStr(WireMac(cur)), leases, offered, now, range_end)
       IN  IF Truthy(o.ret)
             THEN /\ Len(NewReplies) = 1
                  /\ WireType(NewReplies[1]) = 2
                  /\ WireYiaddr(NewReplies[1]) = o.ret
                  /\ WireXid(NewReplies[1]) = WireXid(cur)
                  /\ WireMac(NewReplies[1]) = WireMac(cur)
             ELSE /\ NewReplies = <<>>
                  /\ offered' = offered]_vars

\* C10. Partial option lists are tolerated: on a framed datagram the
\* option parser ends without an error and with the options that precede
\* the end of the buffer; and once handle_packet has run on a framed
\* DISCOVER, whatever follows its option 53, an OFFER to its sender is out.
C10_PartialOptions ==
  /\ (pc = "handle" /\ WellFramed(cur)) =>
       /\ parse_options(cur, 240, EmptyDict).ok
       /\ parse_options(cur, 240, EmptyDict).options
            = WireOptions(cur, 240, EmptyDict)
  /\ (handled # "none" /\ WellFramed(cur) /\ WireType(cur) = 1) =>
       /\ handled = "return"
       /\ sent # <<>>
       /\ WireType(sent[Len(sent)]) = 2
       /\ WireMac(sent[Len(sent)]) = WireMac(cur)


\* ======================================================================
\* Starting and stopping the service (Spec, SpecFair).
\* ======================================================================
\* What the scheduler and the socket guarantee: each thread goes on to its
\* next statement, bind ends one way or another, and recvfrom called on a
\* closed socket raises at once. Nothing makes a datagram arrive, and
\* nothing wakes a recvfrom that was blocked before the socket was closed.
Fairness ==
  /\ WF_vars(StartSocket)
  /\ WF_vars(BindOk \/ BindPermissionError \/ BindOtherError)
  /\ WF_vars(SetRunning)
  /\ WF_vars(LoopTest)
  /\ WF_vars(RecvEnter)
  /\ WF_vars(RecvError /\ pc = "recv")
  /\ WF_vars(HandlePacket)
  /\ WF_vars(StopClose)

SpecFair == Spec /\ Fairness

\* start has ended: by leaving the loop, after a logged bind failure, or by
\* an exception.
Exited == pc \in {"returned", "denied", "raised"}

\* stop has been called, at a moment when start was already under way.
StopAfterStart == stopAt \notin {"none", "idle"}

\* The step in which recvfrom raises.
RecvRaises == pc \in {"recv", "blocked"} /\ pc' \notin {"recv", "blocked", "handle"}

\* C11. Shutdown: once stop has been called at any point after start began,
\* start eventually ends; after stop has returned the loop takes up no
\* further datagram; and while stop has not been called, an error raised by
\* recvfrom sends the loop back to its test with running still set.
C11_Shutdown ==
  /\ StopAfterStart ~> Exited
  /\ [][(stopPc = "done" /\ StopAfterStart) => ~(pc # "handle" /\ pc' = "handle")]_vars
  /\ [][(stopPc = "idle" /\ RecvRaises) => (pc' = "loop" /\ running /\ running')]_vars


\* start has ended on a failed bind.
BindFailed == pc \in {"denied", "raised"}

\* The step in which bind fails.
BindFails == pc = "bind" /\ pc' \notin {"bind", "set_running"}

\* C12. Bind failure is fatal: when bind fails, for whatever reason, the
\* failure is raised to the caller of start; and from then on start does
\* nothing more: it never binds again, never enters the loop, running stays
\* False and no datagram is received or handled.
C12_BindFailureFatal ==
  [][/\ BindFails => (pc' = "raised" /\ ~running')
     /\ BindFailed => (/\ pc' = pc
                       /\ ~running /\ ~running'
                       /\ cur = <<>> /\ cur' = cur
                       /\ handled' = "none"
                       /\ sent' = <<>>)]_vars


\* ======================================================================
\* The replies (SpecDecoded).
\* ======================================================================
\* The message types send_reply is called with: OFFER and ACK.
ReplyTypes == {2, 5}

\* C13. Round-trip codec: send_reply(xid, mac, yiaddr, msg_type) on a bound
\* socket emits one datagram, and reading that datagram as handle_packet
\* reads one - the header unpacked from its first bytes, the magic cookie
\* at offset 236, the options from offset 240 - gives op = 2, the same
\* transaction id, the same yiaddr, the same six bytes of MAC at the head of
\* chaddr and the same message type in option 53.
C13_RoundTrip ==
  \A xid \in Xids, mb \in MacBytes, ip \in ReqIps, t \in ReplyTypes :
    sock = "bound" =>
      LET s == send_reply(xid, mb, ip, t, sent, sock) IN
        /\ s.ok
        /\ Len(s.sent) = Len(sent) + 1
        /\ LET p == s.sent[Len(s.sent)]
               hdr == struct_unpack_header(Slice(p, 0, HeaderSliceLen))
               o == parse_options(p, 240, EmptyDict)
           IN  /\ Len(p) >= MinPacketLen
               /\ hdr.ok
               /\ hdr.op = 2
               /\ hdr.xid = xid
               /\ IpStr(hdr.yiaddr) = ip
               /\ Slice(hdr.chaddr, 0, 6) = mb
               /\ Slice(p, 236, 240) = MagicCookie
               /\ o.ok
               /\ options_get(o.options, 53) = <<t>>


\* ======================================================================
\* The lease pool's further properties (SpecPool, SpecWellBehaved).
\* ======================================================================
\* C14. Offer for a bound client: for a MAC whose binding has its expiry
\* strictly in the future, offer_ip returns the bound address and leaves
\* offered and leases as they were.
C14_OfferForBound ==
  \A mac \in DOMAIN leases :
    Live(leases[mac]) =>
      LET r == offer_ip(mac, leases, offered, now, range_end) IN
        /\ r.ret = leases[mac].ip
        /\ r.leases = leases
        /\ r.offered = offered

\* A binding made an offer's life ago and still far from its expiry, with
\* the lowest address of the range free and another MAC's offer pending: a
\* scan for the bound MAC would have returned another address.
C14_Witness ==
  \E mac \in Macs, o \in Macs :
    /\ mac # o
    /\ mac \in DOMAIN leases
    /\ leases[mac].expiry = now + LeaseTime - OfferTTL
    /\ leases[mac].ip # RangeStart
    /\ o \in DOMAIN offered
    /\ RangeStart \notin used_ips(leases, offered, now)


\* The unavailable set as C15 describes it for a caller: the addresses of
\* the bindings in ls, and the addresses of the unexpired offers of the
\* other MACs.
C15_Unavailable(mac, ls) ==
  { ls[m].ip : m \in DOMAIN ls } \cup
  { offered[m].ip : m \in { k \in (DOMAIN offered) \ {mac} : Live(offered[k]) } }

\* C15. Address selection: for a MAC without an unexpired binding, offer_ip
\* returns the numerically lowest address of the range that is not in the
\* unavailable set (the bound addresses and the unexpired offers of other
\* MACs) and records it as the caller's offer with expiry now + 60; it
\* returns None, recording nothing, exactly when the range has no such
\* address.
C15_AddressSelection ==
  \A mac \in Macs :
    LET g == get_lease(mac, leases, offered, now)
        r == offer_ip(mac, leases, offered, now, range_end)
        free == Range \ C15_Unavailable(mac, g.leases)
    IN  ~Truthy(g.ret) =>
          IF free = {}
            THEN r.ret = None /\ r.offered = offered
            ELSE /\ r.ret \in free
                 /\ \A a \in free : IpInt(r.ret) <= IpInt(a)
                 /\ r.offered = DictSet(offered, mac, Entry(r.ret, now + OfferTTL))


\* C16. Offer reclamation: an offer that no REQUEST has followed reserves
\* its address until its 60 s have elapsed and no longer: while it is
\* unexpired, offer_ip returns that address to no other MAC; once it has
\* expired, and nothing else holds the address, offer_ip for another MAC
\* that has no binding of its own finds the address free (and returns it,
\* or a lower free address).
C16_OfferReclamation ==
  \A m1 \in DOMAIN offered, m2 \in Macs :
    (m1 # m2 /\ m1 \notin DOMAIN leases) =>
      LET a == offered[m1].ip
          r == offer_ip(m2, leases, offered, now, range_end)
      IN  /\ Live(offered[m1]) => r.ret # a
          /\ ( /\ ~Live(offered[m1])
               /\ ~Truthy(get_lease(m2, leases, offered, now).ret)
               /\ \A m \in DOMAIN leases : leases[m].ip # a
               /\ \A m \in Macs : a \notin Held(m) )
               => (Truthy(r.ret) /\ IpInt(r.ret) <= IpInt(a))


\* The tables after this step are those r holds, at the same clock value.
Yields(r) == leases' = r.leases /\ offered' = r.offered /\ now' = now

\* C17. Lazy expiry is the only way out of BOUND: a binding whose expiry is
\* strictly in the future is returned by get_lease, and no step removes it
\* or changes it other than commit_lease for the same MAC; a step that
\* deletes an entry of leases is get_lease or offer_ip called for that same
\* MAC at a clock value the entry's expiry does not exceed.
C17_LazyExpiryOnly ==
  [][\A m \in DOMAIN leases :
       /\ Live(leases[m]) =>
            /\ get_lease(m, leases, offered, now).ret = leases[m].ip
            /\ m \in DOMAIN leases'
            /\ \/ leases'[m] = leases[m]
               \/ \E ip \in ReqIps : Yields(commit_lease(m, ip, leases, offered, now))
       /\ m \notin DOMAIN leases' =>
            /\ leases[m].expiry <= now
            /\ \/ Yields(get_lease(m, leases, offered, now))
               \/ Yields(offer_ip(m, leases, offered, now, range_end))]_vars

\* The clock stands exactly at the expiry of one MAC's binding, which
\* get_lease and offer_ip for that MAC therefore delete, while another MAC
\* holds a binding that has not expired and offer_ip has an address to give.
C17_Witness ==
  \E m \in DOMAIN leases, o \in DOMAIN leases :
    /\ m # o
    /\ leases[m].expiry = now
    /\ Live(leases[o])
    /\ get_lease(m, leases, offered, now).leases = DictDel(leases, m)
    /\ offer_ip(m, leases, offered, now, range_end).leases = DictDel(leases, m)
    /\ Truthy(offer_ip(m, leases, offered, now, range_end).ret)


\* The addresses mac's own entries in the tables ls and os make unavailable
\* to other MACs: the address of its binding, and the address of its offer
\* while that has not expired.
Reserved(mac, ls, os) ==
  (IF mac \in DOMAIN ls THEN {ls[mac].ip} ELSE {})
  \cup
  (IF mac \in DOMAIN os /\ os[mac].expiry > now THEN {os[mac].ip} ELSE {})

\* C18. At most one reservation per MAC: no MAC has an entry in offered and
\* an entry in leases at once, and a MAC's entries make at most one address
\* unavailable to the others, also after that MAC calls offer_ip once more
\* and once again.
C18_OneReservation ==
  \A mac \in Macs :
    LET r1 == offer_ip(mac, leases, offered, now, range_end)
        r2 == offer_ip(mac, r1.leases, r1.offered, now, range_end)
    IN  /\ ~(mac \in DOMAIN offered /\ mac \in DOMAIN leases)
        /\ Cardinality(Reserved(mac, leases, offered)) <= 1
        /\ ~(mac \in DOMAIN r1.offered /\ mac \in DOMAIN r1.leases)
        /\ Cardinality(Reserved(mac, r1.leases, r1.offered)) <= 1
        /\ Cardinality(Reserved(mac, r2.leases, r2.offered)) <= 1

\* A MAC's repeated offer_ip calls have moved its offer to the second
\* address of the range, and the first address is unavailable to nobody.
C18_Witness ==
  \E mac \in DOMAIN offered :
    /\ Live(offered[mac])
    /\ offered[mac].ip # RangeStart
    /\ mac \notin DOMAIN leases
    /\ RangeStart \notin used_ips(leases, offered, now)
    /\ Reserved(mac, leases, offered) = {offered[mac].ip}


\* commit_lease as the REQUEST of a well-behaved client reaches it: the
\* address named is the one of the sender's own unexpired offer or of its
\* own unexpired binding.
CommitOwn ==
  \E mac \in Macs, ip \in ReqIps :
    /\ \/ mac \in DOMAIN offered /\ offered[mac].expiry > now /\ offered[mac].ip = ip
       \/ mac \in DOMAIN leases /\ leases[mac].expiry > now /\ leases[mac].ip = ip
    /\ Call(commit_lease(mac, ip, leases, offered, now))
    /\ UNCHANGED offeredTo

\* The LeaseManager driven by well-behaved clients.
NextWellBehaved == Tick \/ GetLease \/ OfferIp \/ CommitOwn

SpecWellBehaved == Init /\ [][NextWellBehaved]_vars

\* The MACs that hold address a by an entry that has not expired.
Holders(a) == { m \in Macs : a \in Held(m) }

\* C19. Uniqueness for well-behaved clients: when every REQUEST names the
\* address of its sender's own unexpired offer or unexpired binding, every
\* address is held, by non-expired entries, by at most one MAC.
C19_WellBehavedUniqueness ==
  \A a \in ReqIps : Cardinality(Holders(a)) <= 1

\* Two MACs each hold an address of their own: one by a binding its REQUEST
\* for its offered address made and that it has since renewed, the other by
\* an offer made after the first MAC's offer had expired.
C19_Witness ==
  \E m1 \in DOMAIN leases, m2 \in DOMAIN offered :
    /\ m1 # m2
    /\ Live(leases[m1])
    /\ leases[m1].expiry > LeaseTime
    /\ Live(offered[m2])
    /\ offered[m2].expiry > OfferTTL
    /\ leases[m1].ip # offered[m2].ip


\* C20. Offers stay in range: every address offer_ip returns, which is the
\* address an OFFER reply carries, and every address stored in offered lies
\* within the configured range.
C20_OffersInRange ==
  /\ \A m \in DOMAIN offered : offered[m].ip \in Range
  /\ \A mac \in Macs :
       LET r == offer_ip(mac, leases, offered, now, range_end)
       IN  Truthy(r.ret) => r.ret \in Range

====
